---- MODULE Spec2Model ----
(***************************************************************************)
(* Model of the theme controller of the portfolio site                     *)
(* (src/portfolio-website/theme.js): the time-of-day phase, the persisted  *)
(* theme mode (auto / light / dark), the effective theme, the attributes   *)
(* written on the root element, the toggle label, and the one-shot timer   *)
(* chain that re-evaluates the theme at each phase boundary.               *)
(*                                                                         *)
(* Every event handler of the script runs to completion on the single      *)
(* JavaScript thread, so each handler is one action.  The wall clock is a  *)
(* millisecond of the local day; it moves only between handlers (both      *)
(* `new Date()` reads of one handler see the same millisecond) and every   *)
(* local day has 24 hours.                                                 *)
(***************************************************************************)
EXTENDS Integers, Sequences, FiniteSets, TLC

(***************************************************************************)
(* Bounds of the model.                                                    *)
(***************************************************************************)
\* The clock visits the instant NearMs before a boundary (inside the minimum
\* delay) and the instant that delay later.
NearMs == 500

(***************************************************************************)
(* Constants of the program.                                               *)
(***************************************************************************)
THEME_MODES == <<"auto", "light", "dark">>

\* Math.max(diff, 1000)
MinDelay == 1000

\* const boundaries = [5, 10, 16, 19]
boundaries == <<5, 10, 16, 19>>

MsPerHour == 60 * 60 * 1000
\* boundaries[0] + 24; nextBoundary % 24
HoursPerDay == 24
MsPerDay == HoursPerDay * MsPerHour

\* localStorage.getItem returns null for a key that was never set.
NoItem == "<null>"
\* getAttribute on an attribute that was never set.
NoAttr == "<absent>"
\* The label's text as the page's markup gives it, before any script ran.
MarkupLabel == "<markup>"
\* The template literal `Auto • ${phase}`; the bullet U+2022 is written "*".
AutoPrefix == "Auto * "

VARIABLES
    now,            \* wall clock: millisecond of the local day
    stored,         \* localStorage[THEME_KEY]: a string, or NoItem
    storageState,   \* "ok" | "readonly" (setItem throws) | "blocked" (both throw)
    mq,             \* window.matchMedia: "none" (throws) | "modern" | "legacy"
    prefersDark,    \* (prefers-color-scheme: dark) matches
    labelPresent,   \* #theme-label exists
    togglePresent,  \* #theme-toggle exists
    dataMode,       \* <html data-mode>
    dataTheme,      \* <html data-theme>
    dataPhase,      \* <html data-phase>
    labelText,      \* #theme-label textContent
    timers,         \* the host's pending one-shot timers
    currentTimeout, \* let currentTimeout (0 is null)
    initialized,    \* initializeTheme has run
    subscribed,     \* handleSystemThemeChange is registered on mediaQuery
    tornDown,       \* the beforeunload handler has run
    clicks,         \* history: the mode read by each of the last toggle clicks
    fired           \* history: the timer whose callback the last step ran

env  == <<storageState, mq, labelPresent, togglePresent>>
dom  == <<dataMode, dataTheme, dataPhase, labelText>>
vars == <<now, stored, storageState, mq, prefersDark, labelPresent,
          togglePresent, dataMode, dataTheme, dataPhase, labelText, timers,
          currentTimeout, initialized, subscribed, tornDown, clicks, fired>>

(***************************************************************************)
(* Helpers: JavaScript array and Date primitives.                          *)
(***************************************************************************)
Max(a, b) == IF a >= b THEN a ELSE b

SeqSet(s) == {s[i] : i \in 1..Len(s)}

\* Array.prototype.includes
Includes(s, x) == \E i \in 1..Len(s) : s[i] = x

\* Array.prototype.indexOf (0-based, -1 when absent)
IndexOf(s, x) ==
    IF Includes(s, x)
    THEN (CHOOSE i \in 1..Len(s) :
             s[i] = x /\ \A j \in 1..(i - 1) : s[j] # x) - 1
    ELSE -1

\* Date.prototype.getHours of the instant t
getHours(t) == t \div MsPerHour

(***************************************************************************)
(* The pure functions of the script.                                       *)
(***************************************************************************)
\* Mutant: the lower bound of morning is exclusive (hour > 5).
getCurrentPhase_LowerExclusive(t) ==
    LET hour == getHours(t) IN
    IF hour > 5 /\ hour < 10 THEN "morning"
    ELSE IF hour >= 10 /\ hour < 16 THEN "afternoon"
    ELSE IF hour >= 16 /\ hour < 19 THEN "evening"
    ELSE "night"

getCurrentPhase(t) ==
    LET hour == getHours(t) IN
    IF hour >= 5 /\ hour < 10 THEN "morning"
    ELSE IF hour >= 10 /\ hour < 16 THEN "afternoon"
    ELSE IF hour >= 16 /\ hour < 19 THEN "evening"
    ELSE "night"

\* Mutant: the stored string is not validated (stored || 'auto').
getStoredThemeMode_Unvalidated(item) ==
    IF storageState = "blocked" THEN "auto"
    ELSE IF item = NoItem THEN "auto" ELSE item

\* The value of localStorage[THEME_KEY] is `item`.
getStoredThemeMode(item) ==
    IF storageState = "blocked" THEN "auto"
    ELSE IF Includes(THEME_MODES, item) THEN item ELSE "auto"

\* The value of localStorage[THEME_KEY] after storeThemeMode(mode).
storeThemeMode(item, mode) ==
    IF storageState = "ok" THEN mode ELSE item

\* `dark` is what the media query matches at the time of the call.
getSystemTheme(dark) ==
    IF mq = "none" THEN "light"
    ELSE IF dark THEN "dark" ELSE "light"

\* Mutant: the mode is ignored and the system preference always wins.
getEffectiveTheme_IgnoresMode(mode, dark) == getSystemTheme(dark)

getEffectiveTheme(mode, dark) ==
    IF mode = "auto" THEN getSystemTheme(dark) ELSE mode

applyTheme(mode, phase, dark) ==
    /\ dataMode' = mode
    /\ dataTheme' = getEffectiveTheme(mode, dark)
    /\ dataPhase' = phase

\* Mutant: the label of auto mode does not name the phase.
updateThemeLabel_NoPhase(mode, phase) ==
    labelText' =
        IF ~labelPresent THEN labelText
        ELSE CASE mode = "auto"  -> "Auto"
               [] mode = "light" -> "Light"
               [] mode = "dark"  -> "Dark"
               [] OTHER          -> "Auto"

\* Mutant: no early return for a missing #theme-label; the assignment to
\* null.textContent raises and the handler does not complete.
updateThemeLabel_NoNullCheck(mode, phase) ==
    /\ labelPresent
    /\ labelText' =
           CASE mode = "auto"  -> AutoPrefix \o phase
             [] mode = "light" -> "Light"
             [] mode = "dark"  -> "Dark"
             [] OTHER          -> "Auto"

updateThemeLabel(mode, phase) ==
    labelText' =
        IF ~labelPresent THEN labelText
        ELSE CASE mode = "auto"  -> AutoPrefix \o phase
               [] mode = "light" -> "Light"
               [] mode = "dark"  -> "Dark"
               [] OTHER          -> "Auto"

\* Mutant: every update moves the page one mode on from the mode its
\* data-mode attribute shows.
updateTheme_AdvancesMode(item, dark) ==
    LET shown == IF Includes(THEME_MODES, dataMode)
                 THEN THEME_MODES[((IndexOf(THEME_MODES, dataMode) + 1)
                                       % Len(THEME_MODES)) + 1]
                 ELSE getStoredThemeMode(item)
        phase == getCurrentPhase(now)
    IN  /\ applyTheme(shown, phase, dark)
        /\ updateThemeLabel(shown, phase)

\* updateTheme with the store holding `item` and the media query at `dark`.
updateTheme(item, dark) ==
    LET mode  == getStoredThemeMode(item)
        phase == getCurrentPhase(now)
    IN  /\ applyTheme(mode, phase, dark)
        /\ updateThemeLabel(mode, phase)

(***************************************************************************)
(* The boundary scheduler.                                                 *)
(***************************************************************************)
\* Mutant: boundaries.find(hour => hour >= currentHour).
nextBoundaryOf_Inclusive(t) ==
    LET currentHour == getHours(t)
        found == {i \in 1..Len(boundaries) : boundaries[i] >= currentHour}
    IN  IF found # {}
        THEN boundaries[CHOOSE i \in found : \A j \in found : i <= j]
        ELSE boundaries[1] + 24

\* let nextBoundary = boundaries.find(...); if (!nextBoundary) ... + 24
nextBoundaryOf(t) ==
    LET currentHour == getHours(t)
        found == {i \in 1..Len(boundaries) : boundaries[i] > currentHour}
    IN  IF found # {}
        THEN boundaries[CHOOSE i \in found : \A j \in found : i <= j]
        ELSE boundaries[1] + 24

\* Mutant: a boundary of tomorrow is not moved to the next day.
getTimeUntilNextPhase_SameDay(t) ==
    LET nextBoundary == nextBoundaryOf(t)
        targetTime == (nextBoundary % 24) * MsPerHour
        diff == targetTime - t
    IN  Max(diff, MinDelay)

\* Mutant: the floor applies only to a delay that is not positive.
getTimeUntilNextPhase_FloorAtZero(t) ==
    LET nextBoundary == nextBoundaryOf(t)
        targetTime == (nextBoundary % 24) * MsPerHour
                      + (IF nextBoundary >= 24 THEN MsPerDay ELSE 0)
        diff == targetTime - t
    IN  IF diff <= 0 THEN MinDelay ELSE diff

getTimeUntilNextPhase(t) ==
    LET nextBoundary == nextBoundaryOf(t)
        targetTime == (nextBoundary % 24) * MsPerHour
                      + (IF nextBoundary >= 24 THEN MsPerDay ELSE 0)
        diff == targetTime - t
    IN  Max(diff, MinDelay)

\* clearTimeout(id): the pending timers without the one `id` names.
clearTimeout(ts, id) == {tm \in ts : tm.id # id}

\* setTimeout returns a handle that identifies no pending timer.
FreshId(ts) ==
    CHOOSE i \in 1..(Cardinality(ts) + 1) :
        /\ \A tm \in ts : tm.id # i
        /\ \A j \in 1..(i - 1) : \E tm \in ts : tm.id = j

\* setTimeout(callback, delay).  A pending timer is its handle `id` and the
\* milliseconds `rem` left of its delay; as history it carries the hour
\* `boundary` its delay was computed for and whether the clock has `missed`
\* it: has reached the boundary after that one with the timer still pending.
setTimeout(ts, delay, boundary) ==
    ts \cup {[id |-> FreshId(ts), rem |-> delay, boundary |-> boundary,
              missed |-> FALSE]}

\* No timer: the value of `fired` after a step that ran no timer callback.
NoTimer == [id |-> 0, rem |-> 0, boundary |-> 0, missed |-> FALSE]

\* Mutant: a repeating timer (the due timer stays pending) that is never
\* cleared.
schedulePhaseUpdate_Repeating(ts) ==
    /\ timers' = setTimeout(timers, getTimeUntilNextPhase(now),
                            nextBoundaryOf(now) % 24)
    /\ currentTimeout' = FreshId(timers)

\* schedulePhaseUpdate with `ts` the timers pending when it is called.
schedulePhaseUpdate(ts) ==
    LET cleared == IF currentTimeout # 0
                   THEN clearTimeout(ts, currentTimeout) ELSE ts
        timeUntilNext == getTimeUntilNextPhase(now)
    IN  /\ timers' = setTimeout(cleared, timeUntilNext,
                                nextBoundaryOf(now) % 24)
        /\ currentTimeout' = FreshId(cleared)

(***************************************************************************)
(* The clock.                                                              *)
(***************************************************************************)
BoundaryHours == SeqSet(boundaries)

\* The boundaries the clock also visits at sub-second distance: the first of
\* the day and the last, after which the next boundary is tomorrow's.
NearBoundaries == {boundaries[1], boundaries[Len(boundaries)]}

\* The instants the clock visits: every boundary; NearMs before a near
\* boundary and MinDelay after that; exactly MinDelay before 10:00; midnight,
\* 08:30, 14:00 and 20:00.
SampleTimes ==
    {b * MsPerHour : b \in BoundaryHours}
    \cup {b * MsPerHour + d : b \in NearBoundaries,
                              d \in {0 - NearMs, MinDelay - NearMs}}
    \cup {10 * MsPerHour - MinDelay}
    \cup {0, 8 * MsPerHour + MsPerHour \div 2, 14 * MsPerHour,
          20 * MsPerHour}

NextSample(t) ==
    LET later == {s \in SampleTimes : s > t}
        pool  == IF later # {} THEN later ELSE SampleTimes
    IN  CHOOSE s \in pool : \A u \in pool : s <= u

Elapsed(t, u) == IF u > t THEN u - t ELSE u - t + MsPerDay

\* The boundary hour that follows boundary hour b, around the clock.
FollowingBoundary(b) ==
    LET later == {c \in BoundaryHours : c > b}
        pool  == IF later # {} THEN later ELSE BoundaryHours
    IN  CHOOSE c \in pool : \A d \in pool : c <= d

(***************************************************************************)
(* Initial state: the script has been evaluated (the beforeunload listener *)
(* is registered, window.prePaintTheme is exported) and initializeTheme    *)
(* has not run yet.                                                        *)
(***************************************************************************)
StoredValues == SeqSet(THEME_MODES) \cup {NoItem, "blue"}

Init ==
    /\ now \in SampleTimes
    /\ stored \in StoredValues
    /\ storageState \in {"ok", "readonly", "blocked"}
    /\ mq \in {"none", "modern", "legacy"}
    /\ prefersDark \in BOOLEAN
    /\ labelPresent \in BOOLEAN
    /\ togglePresent \in BOOLEAN
    /\ dataMode = NoAttr
    /\ dataTheme = NoAttr
    /\ dataPhase = NoAttr
    /\ labelText = MarkupLabel
    /\ timers = {}
    /\ currentTimeout = 0
    /\ initialized = FALSE
    /\ subscribed = FALSE
    /\ tornDown = FALSE
    /\ clicks = <<>>
    /\ fired = NoTimer

(***************************************************************************)
(* Actions: one per handler.                                               *)
(***************************************************************************)
\* Mutant: initialization persists the mode it read (the default included).
initializeTheme_PersistsDefault ==
    /\ ~initialized
    /\ stored' = storeThemeMode(stored, getStoredThemeMode(stored))
    /\ updateTheme(stored', prefersDark)
    /\ subscribed' = (mq # "none")
    /\ schedulePhaseUpdate(timers)
    /\ initialized' = TRUE
    /\ fired' = NoTimer
    /\ UNCHANGED <<now, prefersDark, env, tornDown, clicks>>

\* DOMContentLoaded (or the script's own call when the document is loaded).
initializeTheme ==
    /\ ~initialized
    /\ updateTheme(stored, prefersDark)
    /\ subscribed' = (mq # "none")
    /\ schedulePhaseUpdate(timers)
    /\ initialized' = TRUE
    /\ fired' = NoTimer
    /\ UNCHANGED <<now, stored, prefersDark, env, tornDown, clicks>>

\* The last Len(THEME_MODES) entries of the click history.
Recent(s) == IF Len(s) > Len(THEME_MODES) THEN Tail(s) ELSE s

\* Mutant: the click skips a mode (currentIndex + 2).
handleThemeToggle_SkipsOne ==
    /\ initialized
    /\ togglePresent
    /\ LET currentMode  == getStoredThemeMode(stored)
           currentIndex == IndexOf(THEME_MODES, currentMode)
           nextIndex    == (currentIndex + 2) % Len(THEME_MODES)
           nextMode     == THEME_MODES[nextIndex + 1]
           item         == storeThemeMode(stored, nextMode)
       IN  /\ stored' = item
           /\ updateTheme(item, prefersDark)
           /\ clicks' = Recent(Append(clicks, currentMode))
    /\ fired' = NoTimer
    /\ UNCHANGED <<now, prefersDark, env, timers, currentTimeout,
                   initialized, subscribed, tornDown>>

\* Mutant: the click computes the next mode from the page's own data-mode
\* attribute.
handleThemeToggle_FromAttribute ==
    /\ initialized
    /\ togglePresent
    /\ LET currentMode  == dataMode
           currentIndex == IndexOf(THEME_MODES, currentMode)
           nextIndex    == (currentIndex + 1) % Len(THEME_MODES)
           nextMode     == THEME_MODES[nextIndex + 1]
           item         == storeThemeMode(stored, nextMode)
       IN  /\ stored' = item
           /\ updateTheme(item, prefersDark)
           /\ clicks' = Recent(Append(clicks, getStoredThemeMode(stored)))
    /\ fired' = NoTimer
    /\ UNCHANGED <<now, prefersDark, env, timers, currentTimeout,
                   initialized, subscribed, tornDown>>

\* A click on #theme-toggle.
handleThemeToggle ==
    /\ initialized
    /\ togglePresent
    /\ LET currentMode  == getStoredThemeMode(stored)
           currentIndex == IndexOf(THEME_MODES, currentMode)
           nextIndex    == (currentIndex + 1) % Len(THEME_MODES)
           nextMode     == THEME_MODES[nextIndex + 1]
           item         == storeThemeMode(stored, nextMode)
       IN  /\ stored' = item
           /\ updateTheme(item, prefersDark)
           /\ clicks' = Recent(Append(clicks, currentMode))
    /\ fired' = NoTimer
    /\ UNCHANGED <<now, prefersDark, env, timers, currentTimeout,
                   initialized, subscribed, tornDown>>

\* Mutant: the handler runs the update whatever the mode.
handleSystemThemeChange_Always(dark) == updateTheme(stored, dark)

\* handleSystemThemeChange, the media query now matching `dark`.
handleSystemThemeChange(dark) ==
    LET currentMode == getStoredThemeMode(stored)
    IN  IF currentMode = "auto"
        THEN updateTheme(stored, dark)
        ELSE UNCHANGED dom

\* The system preference changes; the change event reaches the handler when
\* it is registered.
SystemThemeChange ==
    /\ mq # "none"
    /\ prefersDark' = ~prefersDark
    /\ IF subscribed
       THEN handleSystemThemeChange(prefersDark')
       ELSE UNCHANGED dom
    /\ fired' = NoTimer
    /\ UNCHANGED <<now, stored, env, timers, currentTimeout, initialized,
                   subscribed, tornDown, clicks>>

\* Mutant: the callback does not reschedule.
TimerFire_NoRearm(tm) ==
    /\ tm \in timers
    /\ tm.rem = 0
    /\ updateTheme(stored, prefersDark)
    /\ timers' = timers \ {tm}
    /\ fired' = tm
    /\ UNCHANGED <<now, stored, prefersDark, env, currentTimeout,
                   initialized, subscribed, tornDown, clicks>>

\* The callback of setTimeout in schedulePhaseUpdate: the timer tm is due,
\* the host removes it and runs the callback.
TimerFire(tm) ==
    /\ tm \in timers
    /\ tm.rem = 0
    /\ updateTheme(stored, prefersDark)
    /\ schedulePhaseUpdate(timers \ {tm})
    /\ fired' = tm
    /\ UNCHANGED <<now, stored, prefersDark, env, initialized, subscribed,
                   tornDown, clicks>>

\* Mutant: the listener removes the change listener and leaves the timer.
BeforeUnload_KeepsTimer ==
    /\ subscribed' = IF subscribed /\ mq = "modern" THEN FALSE ELSE subscribed
    /\ tornDown' = TRUE
    /\ fired' = NoTimer
    /\ UNCHANGED <<now, stored, prefersDark, env, dom, timers, currentTimeout,
                   initialized, clicks>>

\* The beforeunload listener.
BeforeUnload ==
    /\ timers' = IF currentTimeout # 0
                 THEN clearTimeout(timers, currentTimeout) ELSE timers
    /\ subscribed' = IF subscribed /\ mq = "modern" THEN FALSE ELSE subscribed
    /\ tornDown' = TRUE
    /\ fired' = NoTimer
    /\ UNCHANGED <<now, stored, prefersDark, env, dom, currentTimeout,
                   initialized, clicks>>

\* The three closures of prePaintTheme, the function's own copies of
\* getCurrentPhase, getStoredThemeMode and getEffectiveTheme.
\* Mutant: the copy has drifted from getCurrentPhase (evening from 17:00).
getPhase_Drifted(t) ==
    LET hour == getHours(t) IN
    IF hour >= 5 /\ hour < 10 THEN "morning"
    ELSE IF hour >= 10 /\ hour < 17 THEN "afternoon"
    ELSE IF hour >= 17 /\ hour < 19 THEN "evening"
    ELSE "night"

getPhase(t) ==
    LET hour == getHours(t) IN
    IF hour >= 5 /\ hour < 10 THEN "morning"
    ELSE IF hour >= 10 /\ hour < 16 THEN "afternoon"
    ELSE IF hour >= 16 /\ hour < 19 THEN "evening"
    ELSE "night"

getMode(item) ==
    IF storageState = "blocked" THEN "auto"
    ELSE IF Includes(<<"auto", "light", "dark">>, item) THEN item ELSE "auto"

getTheme(mode, dark) ==
    IF mode = "auto"
    THEN IF mq = "none" THEN "light"
         ELSE IF dark THEN "dark" ELSE "light"
    ELSE mode

\* window.prePaintTheme(), called by an inline script of the page while the
\* document is being parsed, before initializeTheme.
prePaintTheme ==
    LET mode  == getMode(stored)
        phase == getPhase(now)
        theme == getTheme(mode, prefersDark)
    IN  /\ ~initialized
        /\ dataMode' = mode
        /\ dataTheme' = theme
        /\ dataPhase' = phase
        /\ fired' = NoTimer
        /\ UNCHANGED <<now, stored, prefersDark, env, labelText, timers,
                       currentTimeout, initialized, subscribed, tornDown,
                       clicks>>

\* Time passes to the next instant the clock visits; pending timers come
\* nearer to due and stay due until the host runs them.
Advance ==
    /\ now' = NextSample(now)
    /\ timers' = {[tm EXCEPT
                      !.rem = Max(tm.rem - Elapsed(now, now'), 0),
                      !.missed = tm.missed
                          \/ now' = FollowingBoundary(tm.boundary) * MsPerHour]
                    : tm \in timers}
    /\ fired' = NoTimer
    /\ UNCHANGED <<stored, prefersDark, env, dom, currentTimeout,
                   initialized, subscribed, tornDown, clicks>>

Next ==
    \/ initializeTheme
    \/ handleThemeToggle
    \/ SystemThemeChange
    \/ \E tm \in timers : TimerFire(tm)
    \/ BeforeUnload
    \/ prePaintTheme
    \/ Advance

Spec == Init /\ [][Next]_vars

(***************************************************************************)
(* The store is scoped to the origin: a second page of the site, running   *)
(* the same script, reads and writes the same key.  Of that page the model *)
(* keeps what this page can observe, its writes to the store.              *)
(***************************************************************************)
\* The store now holds `item`, written by another page.  The script
\* registers a click, a change and a beforeunload listener and no 'storage'
\* listener: nothing of this page runs.
onStorageEvent(item) == UNCHANGED dom

\* A click on #theme-toggle of the other page: its handleThemeToggle reads
\* the shared key and writes the next mode to it.
OtherPageToggle ==
    /\ LET currentMode  == getStoredThemeMode(stored)
           currentIndex == IndexOf(THEME_MODES, currentMode)
           nextIndex    == (currentIndex + 1) % Len(THEME_MODES)
           nextMode     == THEME_MODES[nextIndex + 1]
           item         == storeThemeMode(stored, nextMode)
       IN  /\ stored' = item
           /\ onStorageEvent(item)
    /\ fired' = NoTimer
    /\ UNCHANGED <<now, prefersDark, env, timers, currentTimeout,
                   initialized, subscribed, tornDown, clicks>>

\* Both pages stay open: the steps of this page short of its unload, and
\* the other page's clicks.
NextShared ==
    \/ initializeTheme
    \/ handleThemeToggle
    \/ SystemThemeChange
    \/ \E tm \in timers : TimerFire(tm)
    \/ prePaintTheme
    \/ Advance
    \/ OtherPageToggle

SpecShared == Init /\ [][NextShared]_vars

(***************************************************************************)
(* What the claims are stated with.                                        *)
(***************************************************************************)
Modes == {"auto", "light", "dark"}

\* A step in which updateTheme ran.
UpdateRan ==
    \/ initializeTheme
    \/ handleThemeToggle
    \/ \E tm \in timers : TimerFire(tm)
    \/ SystemThemeChange /\ subscribed /\ getStoredThemeMode(stored) = "auto"

\* A step in which one of the four event handlers ran to completion.
HandlerRan ==
    \/ initializeTheme
    \/ handleThemeToggle
    \/ \E tm \in timers : TimerFire(tm)
    \/ SystemThemeChange /\ subscribed

Themes == {"light", "dark"}

Phases == {"morning", "afternoon", "evening", "night"}

\* The label of the specification: "Auto * <phase>", "Light", "Dark".
LabelOf(mode, phase) ==
    CASE mode = "auto"  -> "Auto * " \o phase
      [] mode = "light" -> "Light"
      [] mode = "dark"  -> "Dark"

\* 08:30 local time.
HalfPastEight == 8 * MsPerHour + MsPerHour \div 2

\* Invoking updateTheme in the current state, with the store, the system
\* preference and the clock as they are, writes what is already there.
SecondUpdateChangesNothing ==
    ENABLED (updateTheme(stored, prefersDark) /\ UNCHANGED dom)

\* The phase table of the specification, section 4.1.
PhaseTable(h) ==
    CASE 5 <= h /\ h < 10  -> "morning"
      [] 10 <= h /\ h < 16 -> "afternoon"
      [] 16 <= h /\ h < 19 -> "evening"
      [] (19 <= h /\ h <= 23) \/ (0 <= h /\ h <= 4) -> "night"

\* The system preference as the page can observe it.
SystemPreference(dark) ==
    IF mq = "none" THEN "unavailable"
    ELSE IF dark THEN "dark" ELSE "light"

\* resolve(mode, pref) of the specification, section 4.3.
Resolve(mode, pref) ==
    IF mode = "auto"
    THEN IF pref = "unavailable" THEN "light" ELSE pref
    ELSE mode

\* The fixed cycle auto -> light -> dark -> auto.
Successor(m) ==
    CASE m = "auto"  -> "light"
      [] m = "light" -> "dark"
      [] m = "dark"  -> "auto"

\* The milliseconds from the instant t to the soonest boundary strictly
\* after t, of the same or the following day.
DistanceTo(b, t) == ((b * MsPerHour - t - 1) % MsPerDay) + 1

SoonestBoundary(t) ==
    CHOOSE b \in BoundaryHours :
        \A c \in BoundaryHours : DistanceTo(b, t) <= DistanceTo(c, t)

ExactDistance(t) == DistanceTo(SoonestBoundary(t), t)

(***************************************************************************)
(* C1.  For every local hour h in 0..23 getCurrentPhase returns the phase  *)
(* of the table: morning for 5 <= h < 10, afternoon for 10 <= h < 16,      *)
(* evening for 16 <= h < 19, night otherwise (19..23 and 0..4); the lower  *)
(* bounds are inclusive.  The callback of a timer, which runs updateTheme, *)
(* leaves data-phase at the table's phase for the current hour.            *)
(***************************************************************************)
C1_PhaseOfEveryHour ==
    /\ \A h \in 0..23 :
          getCurrentPhase(h * MsPerHour + (now % MsPerHour)) = PhaseTable(h)
    /\ getCurrentPhase(5 * MsPerHour) = "morning"
    /\ getCurrentPhase(10 * MsPerHour) = "afternoon"
    /\ getCurrentPhase(16 * MsPerHour) = "evening"
    /\ getCurrentPhase(19 * MsPerHour) = "night"
    /\ getCurrentPhase(4 * MsPerHour + (now % MsPerHour)) = "night"
    /\ getCurrentPhase(now % MsPerHour) = "night"
    /\ fired # NoTimer => dataPhase = getCurrentPhase(now)

\* The timer armed for 05:00 ran its callback at 05:00:00.000 exactly, and
\* the phase is morning.
C1_Witness ==
    /\ fired.boundary = 5
    /\ now = 5 * MsPerHour
    /\ dataPhase = "morning"

(***************************************************************************)
(* C2.  For every mode and every system preference (light, dark, or        *)
(* unavailable, which counts as light) the effective theme is the system   *)
(* preference when the mode is auto and the mode itself otherwise; every   *)
(* step that runs updateTheme leaves data-theme at that value.             *)
(***************************************************************************)
C2_EffectiveTheme ==
    [][ /\ \A mode \in Modes : \A dark \in BOOLEAN :
              getEffectiveTheme(mode, dark)
                  = Resolve(mode, SystemPreference(dark))
        /\ UpdateRan =>
              /\ dataMode' \in Modes
              /\ dataTheme' = Resolve(dataMode', SystemPreference(prefersDark'))
              /\ dataMode' # "auto" => dataTheme' = dataMode' ]_vars

\* resolve("light", "dark") = "light": a click made the mode light while the
\* system prefers dark.
C2_Witness ==
    /\ clicks # <<>>
    /\ mq # "none" /\ prefersDark
    /\ dataMode = "light"
    /\ dataTheme = "light"

(***************************************************************************)
(* C3.  With a working store every toggle click moves the persisted mode   *)
(* and data-mode to the successor, in the cycle auto -> light -> dark ->   *)
(* auto, of the mode the click found; three consecutive clicks return to   *)
(* the mode the first of them found, whatever timer firings and            *)
(* preference changes happened in between.                                 *)
(***************************************************************************)
C3_ToggleCycle ==
    storageState = "ok" =>
        /\ clicks # <<>> =>
              /\ stored = Successor(clicks[Len(clicks)])
              /\ dataMode = stored
        /\ \A i \in 1..(Len(clicks) - 1) : clicks[i + 1] = Successor(clicks[i])
        /\ Len(clicks) = 3 =>
              /\ stored = clicks[1]
              /\ dataMode = clicks[1]

\* Three clicks from auto, the callback of a timer having just run.
C3_Witness ==
    /\ storageState = "ok"
    /\ clicks = <<"auto", "light", "dark">>
    /\ stored = "auto"
    /\ dataMode = "auto"
    /\ fired # NoTimer

(***************************************************************************)
(* C4.  With a working store, storeThemeMode(m) followed by                *)
(* getStoredThemeMode() returns m, for each of the three modes;            *)
(* getStoredThemeMode() returns auto when the key is unset and when the    *)
(* stored string is none of the three modes.                               *)
(***************************************************************************)
C4_StoreRoundTrip ==
    /\ storageState = "ok" =>
          /\ \A m \in Modes : getStoredThemeMode(storeThemeMode(stored, m)) = m
          /\ clicks # <<>> => stored \in Modes /\ dataMode = stored
    /\ getStoredThemeMode(NoItem) = "auto"
    /\ \A v \in StoredValues \ Modes : getStoredThemeMode(v) = "auto"
    /\ initialized /\ stored \notin Modes => dataMode = "auto"

\* A click wrote "dark" and updateTheme read it back.
C4_Witness ==
    /\ storageState = "ok"
    /\ clicks # <<>> /\ clicks[Len(clicks)] = "light"
    /\ stored = "dark"
    /\ dataMode = "dark"

(***************************************************************************)
(* C5.  When the store's write fails, a toggle click leaves data-mode at   *)
(* the cyclic successor of the mode in effect before the click (the theme  *)
(* keeps working from in-memory state).                                    *)
(***************************************************************************)
C5_ToggleWithoutStore ==
    [][ handleThemeToggle /\ storageState # "ok"
            => dataMode' = Successor(dataMode) ]_vars

(***************************************************************************)
(* C6.  At most one boundary timer is pending in every reachable state,    *)
(* and it is the one currentTimeout records.                               *)
(***************************************************************************)
C6_AtMostOneTimer ==
    /\ Cardinality(timers) <= 1
    /\ \A tm \in timers : tm.id = currentTimeout

\* The callback of a timer has just re-armed the scheduler.
C6_Witness ==
    /\ fired # NoTimer
    /\ Cardinality(timers) = 1
    /\ \E tm \in timers : tm.id = currentTimeout /\ tm.rem > 0

(***************************************************************************)
(* C7.  The scheduler is a self-perpetuating chain: every timer callback   *)
(* runs the full update and arms one new one-shot timer; from the end of   *)
(* initialization until teardown exactly one timer is pending after every  *)
(* step; toggle clicks and preference changes leave the pending timer and  *)
(* its handle as they are.                                                 *)
(***************************************************************************)
C7_TimerChain ==
    [][ /\ initialized' /\ ~tornDown' =>
              /\ Cardinality(timers') = 1
              /\ \A tm \in timers' : tm.id = currentTimeout'
        /\ \A tm \in timers : TimerFire(tm) =>
              /\ dataMode' = getStoredThemeMode(stored)
              /\ dataTheme' = getEffectiveTheme(dataMode', prefersDark)
              /\ dataPhase' = getCurrentPhase(now)
              /\ tm \notin timers'
              /\ \E new \in timers' :
                    /\ timers' = (timers \ {tm}) \cup {new}
                    /\ new.rem = getTimeUntilNextPhase(now)
        /\ handleThemeToggle \/ SystemThemeChange =>
              UNCHANGED <<timers, currentTimeout>> ]_vars

\* A callback re-armed the scheduler after toggle clicks, before teardown.
C7_Witness ==
    /\ initialized /\ ~tornDown
    /\ clicks # <<>>
    /\ fired # NoTimer
    /\ Cardinality(timers) = 1

(***************************************************************************)
(* C8, as stated.  Whenever the callback of the boundary timer has         *)
(* completed, data-phase is the phase of the boundary the timer was armed  *)
(* for (the timer never fires before its delay has passed).                *)
(***************************************************************************)
C8_PhaseOfArmedBoundary ==
    fired # NoTimer => dataPhase = PhaseTable(fired.boundary)

(***************************************************************************)
(* C8, amended.  Whenever the callback of the boundary timer has           *)
(* completed, data-phase is the phase of the hour the callback ran in,     *)
(* which is the phase of the boundary the timer was armed for when the     *)
(* callback ran before the clock reached the boundary after that one; this *)
(* includes a timer armed less than one second before its boundary.        *)
(***************************************************************************)
C8_PhaseAfterCallback ==
    fired # NoTimer =>
        /\ dataPhase = PhaseTable(getHours(now))
        /\ ~fired.missed => dataPhase = PhaseTable(fired.boundary)

\* Armed NearMs before 05:00 with the minimum delay, the timer ran its
\* callback when that delay had passed, and the phase is morning.
C8_Witness ==
    /\ fired.boundary = 5
    /\ ~fired.missed
    /\ now = 5 * MsPerHour - NearMs + MinDelay
    /\ dataPhase = "morning"

(***************************************************************************)
(* C9, as stated.  At every instant getTimeUntilNextPhase targets the      *)
(* soonest boundary strictly after now and returns the milliseconds from   *)
(* now to it.                                                              *)
(***************************************************************************)
C9_ExactDelay ==
    /\ nextBoundaryOf(now) % 24 = SoonestBoundary(now)
    /\ getTimeUntilNextPhase(now) = ExactDistance(now)

(***************************************************************************)
(* C9, amended.  At every instant getTimeUntilNextPhase targets the        *)
(* soonest boundary strictly after now (of the same or the following day)  *)
(* and returns the milliseconds from now to it, raised to 1000 when they   *)
(* are fewer: 2 h at 14:00, 9 h at 20:00, and 5 h (to 10:00) at exactly    *)
(* 05:00:00.000.  A timer armed at this instant has that delay.            *)
(***************************************************************************)
C9_DelayToSoonestBoundary ==
    /\ nextBoundaryOf(now) % 24 = SoonestBoundary(now)
    /\ ExactDistance(now) > 0
    /\ getTimeUntilNextPhase(now) = Max(ExactDistance(now), 1000)
    /\ now = 14 * MsPerHour => getTimeUntilNextPhase(now) = 2 * MsPerHour
    /\ now = 20 * MsPerHour => getTimeUntilNextPhase(now) = 9 * MsPerHour
    /\ now = 5 * MsPerHour =>
          /\ nextBoundaryOf(now) = 10
          /\ getTimeUntilNextPhase(now) = 5 * MsPerHour
    /\ fired # NoTimer =>
          \A tm \in timers :
              /\ tm.boundary = SoonestBoundary(now)
              /\ tm.rem = Max(ExactDistance(now), 1000)

\* A callback at exactly 05:00:00.000 armed the next timer for 10:00.
C9_Witness ==
    /\ now = 5 * MsPerHour
    /\ fired # NoTimer
    /\ \E tm \in timers : tm.boundary = 10 /\ tm.rem = 5 * MsPerHour

(***************************************************************************)
(* C10, as stated.  The 1000 ms floor applies only when the exact distance *)
(* to the next boundary is <= 0: whenever that distance is positive the    *)
(* returned delay equals it.                                               *)
(***************************************************************************)
C10_FloorOnlyWhenNotPositive ==
    ExactDistance(now) > 0 => getTimeUntilNextPhase(now) = ExactDistance(now)

(***************************************************************************)
(* C10, amended.  The 1000 ms floor applies exactly when the exact         *)
(* distance to the next boundary is below 1000 ms: the returned delay      *)
(* equals the exact distance whenever that is at least 1000 ms, and is     *)
(* 1000 ms otherwise.                                                      *)
(***************************************************************************)
C10_FloorBelowOneSecond ==
    /\ ExactDistance(now) >= 1000 =>
          getTimeUntilNextPhase(now) = ExactDistance(now)
    /\ ExactDistance(now) < 1000 => getTimeUntilNextPhase(now) = 1000
    /\ \A tm \in timers : fired # NoTimer /\ ExactDistance(now) < 1000 =>
          tm.rem = 1000

\* A timer armed by a callback NearMs before a boundary got the floor.
C10_Witness ==
    /\ fired # NoTimer
    /\ ExactDistance(now) = NearMs
    /\ \E tm \in timers : tm.rem = 1000

(***************************************************************************)
(* C11.  A change of the system preference that reaches the handler: when  *)
(* the mode reads light or dark the handler changes nothing (data-mode,    *)
(* data-theme, data-phase and the label stay as they are); when it reads   *)
(* auto the full update runs and data-theme becomes the new preference.    *)
(* A page showing an explicit light or dark keeps its attributes across    *)
(* every change of the preference.                                         *)
(***************************************************************************)
C11_PreferenceChange ==
    [][SystemThemeChange =>
          /\ subscribed /\ getStoredThemeMode(stored) \in {"light", "dark"}
                => UNCHANGED dom
          /\ subscribed /\ getStoredThemeMode(stored) = "auto"
                => /\ dataMode' = "auto"
                   /\ dataTheme' = SystemPreference(prefersDark')
                   /\ dataPhase' = PhaseTable(getHours(now))
                   /\ labelPresent => labelText' = AutoPrefix \o dataPhase'
          /\ dataMode \in {"light", "dark"}
                => dataTheme' = dataMode /\ UNCHANGED dom]_vars

\* Auto mode, initialized half a second before 05:00 and never clicked; the
\* timer armed then is still pending at 05:00, so the morning phase and the
\* dark theme were written by the preference handler.
C11_Witness ==
    /\ now = boundaries[1] * MsPerHour
    /\ \E tm \in timers :
          tm.boundary = boundaries[1] /\ tm.rem = MinDelay - NearMs
    /\ clicks = <<>>
    /\ subscribed /\ prefersDark
    /\ dataMode = "auto" /\ dataTheme = "dark" /\ dataPhase = "morning"

(***************************************************************************)
(* C12.  In every state reached after an event handler (initialization,    *)
(* toggle, timer firing, preference change) has run to completion,         *)
(* data-mode equals the mode the store currently reads as and data-theme   *)
(* equals the effective theme resolved from that mode and the current      *)
(* system preference.  The preference handler that finds light or dark in  *)
(* the store returns without writing: after another page has written the   *)
(* key it leaves this page's attributes behind the store.                  *)
(***************************************************************************)
C12_NoDriftAfterHandler ==
    [][HandlerRan =>
          /\ dataMode' = getStoredThemeMode(stored')
          /\ dataTheme' = Resolve(dataMode', SystemPreference(prefersDark'))
      ]_vars

C14_LabelAfterUpdate ==
    [][/\ UpdateRan /\ labelPresent
            => labelText' = LabelOf(dataMode', dataPhase')
       /\ initializeTheme /\ stored = NoItem /\ mq # "none" /\ prefersDark
          /\ now = HalfPastEight
            => /\ dataMode' = "auto"
               /\ dataTheme' = "dark"
               /\ dataPhase' = "morning"
               /\ labelPresent => labelText' = "Auto * morning"
      ]_vars

\* The fresh session of the claim, just initialized at 08:30.
C14_Witness ==
    /\ initialized /\ now = HalfPastEight
    /\ stored = NoItem /\ clicks = <<>>
    /\ mq # "none" /\ prefersDark /\ labelPresent
    /\ \E tm \in timers : tm.boundary = 10 /\ ~tm.missed
    /\ dataMode = "auto" /\ dataTheme = "dark" /\ dataPhase = "morning"
    /\ labelText = "Auto * morning"

(***************************************************************************)
(* C15.  updateTheme is idempotent: once it has run, invoking it again     *)
(* with the stored mode, the system preference and the clock's hour        *)
(* unchanged leaves data-mode, data-theme, data-phase and the label text   *)
(* as the first invocation wrote them.                                     *)
(***************************************************************************)
C15_UpdateIdempotent ==
    [][UpdateRan => SecondUpdateChangesNothing']_vars

\* The store rejects writes: a click after initialization runs updateTheme
\* a second time on the same stored mode, and the page is as it was.
C15_Witness ==
    /\ initialized /\ storageState = "readonly"
    /\ stored = "dark" /\ clicks = <<"dark">>
    /\ now = HalfPastEight /\ labelPresent
    /\ dataMode = "dark" /\ dataTheme = "dark" /\ dataPhase = "morning"
    /\ labelText = "Dark"
    /\ SecondUpdateChangesNothing

(***************************************************************************)
(* C16.  As claimed: after the page-unload handler has run, no boundary    *)
(* timer is pending.  The listener is registered when the script is        *)
(* evaluated and initializeTheme may be deferred to DOMContentLoaded: an   *)
(* unload handler that runs in between (the page survives it) is followed  *)
(* by an initialization that arms the timer.                               *)
(***************************************************************************)
C16_IdleAfterUnload == tornDown => timers = {}

(***************************************************************************)
(* C16, amended.  Teardown disarms the scheduler of an initialized page:   *)
(* the page-unload handler leaves no boundary timer pending, and once the  *)
(* initialized page has none the timer callback never runs again and no    *)
(* step arms a new timer, a toggle click and a preference change included  *)
(* (the scheduler stays Idle).                                             *)
(***************************************************************************)
C16_TeardownDisarms ==
    [][/\ BeforeUnload => timers' = {}
       /\ initialized /\ timers = {}
            => timers' = {} /\ ~(\E tm \in timers : TimerFire(tm))
       /\ handleThemeToggle \/ SystemThemeChange => UNCHANGED timers
      ]_vars

\* Initialized in the night, torn down, and at 08:30 still showing night:
\* the 05:00 boundary passed without a callback.
C16_Witness ==
    /\ initialized /\ tornDown
    /\ timers = {} /\ currentTimeout # 0
    /\ now = HalfPastEight /\ dataPhase = "night"

(***************************************************************************)
(* C17.  The persisted mode is written only by the toggle: initialization, *)
(* pre-paint, timer callbacks, preference changes, teardown and the        *)
(* passing of time leave the stored value as it is (an unset key stays     *)
(* unset, an invalid value stays in place); no step removes the key; and   *)
(* every value written is one of auto, light, dark.                        *)
(***************************************************************************)
C17_OnlyToggleWrites ==
    [][/\ \/ initializeTheme
          \/ prePaintTheme
          \/ \E tm \in timers : TimerFire(tm)
          \/ SystemThemeChange
          \/ BeforeUnload
          \/ Advance
            => stored' = stored
       /\ stored' # stored
            => handleThemeToggle /\ storageState = "ok" /\ stored' \in Modes
       /\ stored # NoItem => stored' # NoItem
      ]_vars

\* A working store holding an invalid value, a page with a toggle nobody
\* clicked: after initialization and a timer callback the value is still
\* there and the page shows auto.
C17_Witness ==
    /\ storageState = "ok" /\ togglePresent
    /\ stored = "blue" /\ clicks = <<>>
    /\ initialized /\ fired # NoTimer
    /\ dataMode = "auto"

(***************************************************************************)
(* C18.  prePaintTheme agrees with updateTheme on the root attributes: for *)
(* every stored value (unset, valid, invalid, unreadable), every system    *)
(* preference (light, dark, unavailable) and every hour 0..23 its own      *)
(* copies of the phase, mode and theme functions return what               *)
(* getCurrentPhase, getStoredThemeMode and getEffectiveTheme return, it    *)
(* sets data-mode, data-theme and data-phase to what updateTheme sets, and *)
(* initializeTheme run after it on the same inputs changes none of the     *)
(* three.                                                                  *)
(***************************************************************************)
C18_PrePaintAgrees ==
    [][prePaintTheme =>
          /\ \A h \in 0..23 :
                getPhase(h * MsPerHour + (now % MsPerHour))
                    = getCurrentPhase(h * MsPerHour + (now % MsPerHour))
          /\ \A item \in StoredValues :
                getMode(item) = getStoredThemeMode(item)
          /\ \A mode \in Modes : \A dark \in BOOLEAN :
                getTheme(mode, dark) = getEffectiveTheme(mode, dark)
          /\ dataMode' = getStoredThemeMode(stored)
          /\ dataTheme' = getEffectiveTheme(dataMode', prefersDark)
          /\ dataPhase' = getCurrentPhase(now)
          /\ (ENABLED (/\ initializeTheme
                       /\ UNCHANGED <<dataMode, dataTheme, dataPhase>>))'
      ]_vars

\* Pre-paint has run at 16:00 on a page not yet initialized, with a store
\* that cannot be read and no media query.
C18_Witness ==
    /\ ~initialized
    /\ storageState = "blocked" /\ mq = "none"
    /\ stored = "dark" /\ prefersDark
    /\ now = 16 * MsPerHour
    /\ dataMode = "auto" /\ dataTheme = "light" /\ dataPhase = "evening"
    /\ labelText = MarkupLabel

(***************************************************************************)
(* C19.  Two pages of one origin share the store.  A toggle click in a     *)
(* page computes the next mode from the stored value, not from the page's  *)
(* own data-mode: it writes the cyclic successor of the value the store    *)
(* held at the moment of the click and, the store taking the write, the    *)
(* page's data-mode is that successor, even if the other page changed the  *)
(* store since this page last updated.  A click in one page leaves the     *)
(* attributes of the other page unchanged.                                 *)
(***************************************************************************)
C19_ToggleReadsStore ==
    [][/\ handleThemeToggle
            => /\ stored' = storeThemeMode(
                               stored, Successor(getStoredThemeMode(stored)))
               /\ dataMode' = getStoredThemeMode(stored')
               /\ storageState = "ok"
                     => dataMode' = Successor(getStoredThemeMode(stored))
       /\ OtherPageToggle => UNCHANGED dom
      ]_vars

\* This page's last two clicks did not read successive modes (the other
\* page wrote the key in between), and the page shows the successor of
\* what its last click read.
C19_Witness ==
    /\ storageState = "ok"
    /\ Len(clicks) >= 2
    /\ clicks[Len(clicks)] # Successor(clicks[Len(clicks) - 1])
    /\ stored = Successor(clicks[Len(clicks)])
    /\ dataMode = stored
====
